---- MODULE Spec2Model ----
(***************************************************************************)
(* Model of deployment/s3.py: create_bucket, upload, upload_file,          *)
(* upload_dir, set_bucket_web_config and the module-level script.          *)
(*                                                                         *)
(* Python strings are sequences of one-character strings, so that          *)
(* os.path.join, str.replace and mimetypes.guess_type are computed the way *)
(* the library computes them.  None is the one-element sequence            *)
(* <<"None">>, which is no string ("None" is not a character).             *)
(***************************************************************************)
EXTENDS Integers, Sequences, FiniteSets, TLC

None == <<"None">>

(* ------------------------------ bounds --------------------------------- *)

\* number of entries of the pools below that the local directories hold
MaxFiles == 4

(* ------------------------- string literals ----------------------------- *)

S_cwd == <<"/", "w">>
S_b == <<"b">>
S_k == <<"k">>
S_kslash == <<"k", "/">>
S_us_east_1 == <<"u", "s", "-", "e", "a", "s", "t", "-", "1">>
S_us_west_2 == <<"u", "s", "-", "w", "e", "s", "t", "-", "2">>
S_index_html == <<"i", "n", "d", "e", "x", ".", "h", "t", "m", "l">>
S_error_html == <<"e", "r", "r", "o", "r", ".", "h", "t", "m", "l">>
S_chat_html == <<"c", "h", "a", "t", ".", "h", "t", "m", "l">>
S_text_html == <<"t", "e", "x", "t", "/", "h", "t", "m", "l">>
S_text_css == <<"t", "e", "x", "t", "/", "c", "s", "s">>
S_text_plain == <<"t", "e", "x", "t", "/", "p", "l", "a", "i", "n">>
S_dot_site == <<".", "/", "s", "i", "t", "e">>
S_dot_site_slash == <<".", "/", "s", "i", "t", "e", "/">>
S_abs_site == <<"/", "w", "/", "s", "i", "t", "e">>
S_site_index == <<"s", "i", "t", "e", "/", "i", "n", "d", "e", "x", ".", "h", "t", "m", "l">>
S_site_pipe == <<"s", "i", "t", "e", "/", "p", "i", "p", "e">>
S_notes_txt == <<"n", "o", "t", "e", "s", ".", "t", "x", "t">>
S_site_data == <<"s", "i", "t", "e", "/", "d", "o", "c", "s", "/", "d", "a", "t", "a", ".", "b", "i", "n">>
S_nope == <<"n", "o", "p", "e">>
S_key_index == <<"i", "n", "d", "e", "x", ".", "h", "t", "m", "l">>
S_key_style == <<"c", "s", "s", "/", "s", "t", "y", "l", "e", ".", "c", "s", "s">>
S_arn == <<"a", "r", "n", ":", "a", "w", "s", ":", "s", "3", ":", ":", ":">>
S_slash_star == <<"/", "*">>

\* the script's arguments, lines 198-202
bucket_name == <<"r", "a", "u", "d", "i", "p", "r", "a", "-", "c", "o", "m", "s",
                 "6", "9", "9", "8", "-", "t", "e", "s", "t">>
script_path == <<".", ".", "/", "s", "r", "c", "/">>
script_key == <<>>
script_index_doc == S_chat_html

\* the default region the docstrings of create_bucket and upload name
DefaultRegion == S_us_east_1

(* --------------------------- str methods ------------------------------- *)

StartsWithAt(s, i, t) ==
    /\ i + Len(t) - 1 <= Len(s)
    /\ \A j \in 1..Len(t) : s[i + j - 1] = t[j]

\* index of the first occurrence of t in s, 0 when there is none (str.find + 1)
Find(s, t) ==
    IF \E i \in 1..(Len(s) + 1) : StartsWithAt(s, i, t)
    THEN CHOOSE i \in 1..(Len(s) + 1) :
            /\ StartsWithAt(s, i, t)
            /\ \A j \in 1..(i - 1) : ~StartsWithAt(s, j, t)
    ELSE 0

\* s.replace(old, new, 1)
replace(s, old, new) ==
    LET i == Find(s, old) IN
    IF i = 0 THEN s
    ELSE SubSeq(s, 1, i - 1) \o new \o SubSeq(s, i + Len(old), Len(s))

\* posixpath.join(a, b)
join(a, b) ==
    IF Len(b) > 0 /\ b[1] = "/" THEN b
    ELSE IF Len(a) = 0 \/ a[Len(a)] = "/" THEN a \o b
    ELSE a \o <<"/">> \o b

\* position of the last c in s, 0 when there is none (str.rfind + 1)
RFind(s, c) ==
    IF \E i \in 1..Len(s) : s[i] = c
    THEN CHOOSE i \in 1..Len(s) : s[i] = c /\ \A j \in (i + 1)..Len(s) : s[j] # c
    ELSE 0

\* posixpath.splitext(p): <<root, ext>>; leading dots of the basename are no extension
splitext(p) ==
    LET sep == RFind(p, "/")
        dot == RFind(p, ".")
    IN IF dot > sep /\ \E j \in (sep + 1)..(dot - 1) : p[j] # "."
       THEN <<SubSeq(p, 1, dot - 1), SubSeq(p, dot, Len(p))>>
       ELSE <<p, <<>>>>

\* mimetypes.types_map restricted to the extensions the local files use
types_map(ext) ==
    IF ext = <<".", "h", "t", "m", "l">> THEN S_text_html
    ELSE IF ext = <<".", "c", "s", "s">> THEN S_text_css
    ELSE IF ext = <<".", "t", "x", "t">> THEN S_text_plain
    ELSE None

\* mimetypes.guess_type(path)[0]: an encoding suffix (.gz) is stripped first
guess_type(path) ==
    LET first == splitext(path)
        ext == IF first[2] = <<".", "g", "z">> THEN splitext(first[1])[2] ELSE first[2]
    IN types_map(ext)

(* ------------------------- local filesystem ---------------------------- *)

File(name) == [name |-> name, kind |-> "file", entries |-> <<>>]
Special(name) == [name |-> name, kind |-> "special", entries |-> <<>>]
Dir(name, entries) == [name |-> name, kind |-> "dir", entries |-> entries]
Missing == [name |-> <<>>, kind |-> "missing", entries |-> <<>>]

\* candidate listing of /w/site, in directory order
SitePool == <<
    File(S_index_html),
    Dir(<<"c", "s", "s">>, <<File(<<"s", "t", "y", "l", "e", ".", "c", "s", "s">>)>>),
    Special(<<"p", "i", "p", "e">>),
    Dir(<<"d", "o", "c", "s">>,
        <<Dir(<<"s", "u", "b">>, <<File(<<"a", ".", "t", "x", "t">>)>>),
          File(<<"d", "a", "t", "a", ".", "b", "i", "n">>)>>),
    File(<<"n", ".", "t", "x", "t", ".", "g", "z">>),
    File(<<"z">>) >>

\* candidate listing of /src, the directory the script uploads
SrcPool == <<
    File(S_chat_html),
    Dir(<<"c", "s", "s">>, <<File(<<"c", ".", "c", "s", "s">>)>>),
    File(<<"R", "E", "A", "D", "M", "E">>),
    Dir(<<"j", "s">>, <<File(<<"a", ".", "t", "x", "t">>)>>),
    File(<<"x">>),
    File(<<"y">>) >>

Min(a, b) == IF a < b THEN a ELSE b

\* the filesystem in which the two directories hold the first n pool entries
MkFs(n) ==
    Dir(<<>>, <<
        Dir(<<"w">>, <<
            Dir(<<"s", "i", "t", "e">>, SubSeq(SitePool, 1, Min(n, Len(SitePool)))),
            File(S_notes_txt),
            Special(<<"s", "o", "c", "k">>) >>),
        Dir(<<"s", "r", "c">>, SubSeq(SrcPool, 1, Min(n, Len(SrcPool)))) >>)

RECURSIVE Components(_)
\* path.split("/")
Components(s) ==
    LET i == Find(s, <<"/">>) IN
    IF i = 0 THEN <<s>>
    ELSE <<SubSeq(s, 1, i - 1)>> \o Components(SubSeq(s, i + 1, Len(s)))

Child(node, name) ==
    IF \E i \in 1..Len(node.entries) : node.entries[i].name = name
    THEN node.entries[CHOOSE i \in 1..Len(node.entries) : node.entries[i].name = name]
    ELSE Missing

RECURSIVE ResolveFrom(_, _)
\* path lookup: nodes is the chain of directories from the root to the
\* current one; every component is looked up in a directory
ResolveFrom(nodes, comps) ==
    IF comps = <<>> THEN nodes[Len(nodes)]
    ELSE LET cur == nodes[Len(nodes)]
             c == Head(comps)
         IN IF cur.kind # "dir" THEN Missing
            ELSE IF c = <<>> \/ c = <<".">> THEN ResolveFrom(nodes, Tail(comps))
            ELSE IF c = <<".", ".">>
                 THEN ResolveFrom(IF Len(nodes) > 1 THEN SubSeq(nodes, 1, Len(nodes) - 1)
                                  ELSE nodes, Tail(comps))
            ELSE ResolveFrom(Append(nodes, Child(cur, c)), Tail(comps))

\* the node a path names for a process whose working directory is S_cwd
Resolve(root, path) ==
    IF path = <<>> THEN Missing
    ELSE IF path[1] = "/" THEN ResolveFrom(<<root>>, Components(path))
    ELSE ResolveFrom(<<root, Child(root, <<"w">>)>>, Components(path))

isfile(root, path) == Resolve(root, path).kind = "file"
isdir(root, path) == Resolve(root, path).kind = "dir"

RECURSIVE walk_dirs(_, _, _)
RECURSIVE walk(_, _)
\* [os.path.join(root, name) for root, _, files in os.walk(top) for name in files]
\* os.walk lists every entry that is not a directory among the files
walk_dirs(top, dirs, i) ==
    IF i > Len(dirs) THEN <<>>
    ELSE walk(join(top, dirs[i].name), dirs[i]) \o walk_dirs(top, dirs, i + 1)

\* a walk that does not descend into subdirectories
walk_top_only(top, node) ==
    LET files == SelectSeq(node.entries, LAMBDA e : e.kind # "dir")
    IN [i \in 1..Len(files) |-> join(top, files[i].name)]

walk(top, node) ==
    LET files == SelectSeq(node.entries, LAMBDA e : e.kind # "dir")
        dirs == SelectSeq(node.entries, LAMBDA e : e.kind = "dir")
    IN [i \in 1..Len(files) |-> join(top, files[i].name)] \o walk_dirs(top, dirs, 1)

walk_top(root, top) ==
    IF isdir(root, top) THEN walk(top, Resolve(root, top)) ELSE <<>>


(* ----------------------------- inputs ---------------------------------- *)

Buckets == {S_b}
Regions == {None, S_us_east_1, S_us_west_2}
Paths == {S_dot_site, S_dot_site_slash, S_abs_site, S_site_index, S_site_pipe,
          S_site_data, S_notes_txt, S_nope}
Keys == {None, <<>>, S_k, S_kslash}
Docs == {None, S_chat_html}

\* what a call of the SDK can do: succeed, raise botocore's ClientError, or
\* raise an exception of another type (a connection error, boto3's
\* S3UploadFailedError)
Outcomes == {"ok", "ClientError", "OtherError"}

(* ------------------------------ state ---------------------------------- *)

VARIABLES
    fs,        \* the local filesystem (read only)
    pc,        \* the top level: "idle", "call", "s1", "s2", "s3", "crashed"
    stack,     \* the frames of the functions being executed, innermost last
    inflight,  \* the remote calls issued and not yet answered
    calls,     \* the remote calls answered, in order, with their outcome
    clients,   \* the region_name of every boto3.client created, in order
    log,       \* what logging.error was called with, in order
    remote,    \* the state of the storage service
    invoked,   \* the functions called from the top level, in order
    returns,   \* every function return, in order: [fn, depth, value]
    results    \* what each top-level call produced: "True", "False", "raised"

vars == <<fs, pc, stack, inflight, calls, clients, log, remote, invoked, returns, results>>

Frame(fn, bucket, path, region, key, index_doc, error_doc, cors, public) ==
    [fn |-> fn, bucket |-> bucket, path |-> path, region |-> region, key |-> key,
     index_doc |-> index_doc, error_doc |-> error_doc, cors |-> cors, public |-> public,
     pos |-> "start", at |-> "none", dirpath |-> None, todo |-> <<>>, ret |-> "none"]

Call(api, client, bucket) ==
    [api |-> api, client |-> client, bucket |-> bucket, src |-> None, key |-> None,
     ctype |-> None, loc |-> None, policy |-> None, index |-> None, error |-> None,
     outcome |-> "pending"]

Top == stack[Len(stack)]

Running(fn, pos) == /\ stack # <<>>
                    /\ Top.fn = fn
                    /\ Top.pos = pos

\* the effect of a successful call on the storage service
Apply(r, c) ==
    IF c.api = "create_bucket" THEN [r EXCEPT !.buckets = @ \cup {c.bucket}]
    ELSE IF c.api = "upload_file"
    THEN [r EXCEPT !.objects = {o \in @ : o.bucket # c.bucket \/ o.key # c.key}
                                \cup {[bucket |-> c.bucket, key |-> c.key, ctype |-> c.ctype]}]
    ELSE IF c.api = "put_bucket_cors" THEN [r EXCEPT !.cors = @ \cup {c.bucket}]
    ELSE IF c.api = "put_bucket_policy"
    THEN [r EXCEPT !.policy = @ \cup {[bucket |-> c.bucket, resource |-> c.policy]}]
    ELSE [r EXCEPT !.website = {w \in @ : w.bucket # c.bucket}
                               \cup {[bucket |-> c.bucket, index |-> c.index, error |-> c.error]}]

Init ==
    /\ fs \in {MkFs(n) : n \in 0..MaxFiles}
    /\ pc = "idle"
    /\ stack = <<>>
    /\ inflight = {}
    /\ calls = <<>>
    /\ clients = <<>>
    /\ log = <<>>
    /\ remote = [buckets |-> {}, objects |-> {}, cors |-> {}, policy |-> {}, website |-> {}]
    /\ invoked = <<>>
    /\ returns = <<>>
    /\ results = <<>>

(* ------------------------ control-flow helpers ------------------------- *)

\* return v: pop the frame; the caller's frame, if any, receives v
ReturnFrom(v) ==
    /\ returns' = Append(returns, [fn |-> Top.fn, depth |-> Len(stack), value |-> v])
    /\ IF Len(stack) > 1
       THEN /\ stack' = [SubSeq(stack, 1, Len(stack) - 1) EXCEPT
                            ![Len(stack) - 1].pos = "returned",
                            ![Len(stack) - 1].ret = v]
            /\ results' = results
       ELSE /\ stack' = <<>>
            /\ results' = Append(results, v)

\* a blocking SDK call: the frame f waits for the answer
Issue(f, c) ==
    /\ inflight = {}
    /\ inflight' = {c}
    /\ stack' = [stack EXCEPT ![Len(stack)] = [f EXCEPT !.pos = "wait", !.at = c.api]]

\* boto3.client('s3') or boto3.client('s3', region_name=region)
NewClient(region) == clients' = Append(clients, region)

\* the answer to the call in flight
Respond(outcome) ==
    /\ inflight # {}
    /\ LET c == CHOOSE x \in inflight : TRUE IN
        /\ calls' = Append(calls, [c EXCEPT !.outcome = outcome])
        /\ remote' = IF outcome = "ok" THEN Apply(remote, c) ELSE remote
    /\ inflight' = {}
    /\ stack' = [stack EXCEPT ![Len(stack)].pos =
                    IF outcome = "ok" THEN "resume"
                    ELSE IF outcome = "ClientError" THEN "except" ELSE "raise"]
    /\ UNCHANGED <<fs, pc, clients, log, invoked, returns, results>>

\* except ClientError as e: logging.error(e); return False
Except(fn) ==
    /\ Running(fn, "except")
    /\ log' = Append(log, "ClientError")
    /\ ReturnFrom("False")
    /\ UNCHANGED <<fs, pc, inflight, calls, clients, remote, invoked>>

\* an exception that no except clause names leaves every frame
Propagate ==
    /\ stack # <<>>
    /\ Top.pos = "raise"
    /\ stack' = <<>>
    /\ results' = Append(results, "raised")
    /\ pc' = "crashed"
    /\ UNCHANGED <<fs, inflight, calls, clients, log, remote, invoked, returns>>

(* --------------------------- create_bucket ----------------------------- *)

create_bucket_request(f) ==
    IF f.region = None
    THEN Call("create_bucket", None, f.bucket)
    ELSE [Call("create_bucket", f.region, f.bucket) EXCEPT !.loc = f.region]

create_bucket ==
    /\ Running("create_bucket", "start")
    /\ NewClient(Top.region)
    /\ Issue(Top, create_bucket_request(Top))
    /\ UNCHANGED <<fs, pc, calls, log, remote, invoked, returns, results>>

create_bucket_except == Except("create_bucket")

create_bucket_return ==
    /\ Running("create_bucket", "resume")
    /\ ReturnFrom("True")
    /\ UNCHANGED <<fs, pc, inflight, calls, clients, log, remote, invoked>>

(* ------------------------------- upload -------------------------------- *)

\* a dispatch that forgets the key
upload_callee_drops_key(f, fn) ==
    Frame(fn, f.bucket, f.path, f.region, None, None, None, FALSE, FALSE)

upload_callee(f, fn) ==
    Frame(fn, f.bucket, f.path, f.region, f.key, None, None, FALSE, FALSE)

upload ==
    /\ Running("upload", "start")
    /\ IF isfile(fs, Top.path)
       THEN /\ stack' = Append([stack EXCEPT ![Len(stack)].pos = "called"],
                               upload_callee(Top, "upload_file"))
            /\ UNCHANGED <<log, returns, results>>
       ELSE IF isdir(fs, Top.path)
       THEN /\ stack' = Append([stack EXCEPT ![Len(stack)].pos = "called"],
                               upload_callee(Top, "upload_dir"))
            /\ UNCHANGED <<log, returns, results>>
       ELSE /\ log' = Append(log, "unsupported special file")
            /\ ReturnFrom("False")
    /\ UNCHANGED <<fs, pc, inflight, calls, clients, remote, invoked>>

upload_return ==
    /\ Running("upload", "returned")
    /\ ReturnFrom(Top.ret)
    /\ UNCHANGED <<fs, pc, inflight, calls, clients, log, remote, invoked>>

(* ----------------------------- upload_file ----------------------------- *)

s3_upload_file(f, filepath, key) ==
    [Call("upload_file", f.region, f.bucket) EXCEPT
        !.src = filepath, !.key = key, !.ctype = guess_type(filepath)]

\* an upload that always uses the file path as the key
upload_file_request_path_as_key(f) == s3_upload_file(f, f.path, f.path)

upload_file_request(f) ==
    s3_upload_file(f, f.path, IF f.key = None THEN f.path ELSE f.key)

upload_file ==
    /\ Running("upload_file", "start")
    /\ NewClient(Top.region)
    /\ Issue(Top, upload_file_request(Top))
    /\ UNCHANGED <<fs, pc, calls, log, remote, invoked, returns, results>>

upload_file_except == Except("upload_file")

upload_file_return ==
    /\ Running("upload_file", "resume")
    /\ ReturnFrom("True")
    /\ UNCHANGED <<fs, pc, inflight, calls, clients, log, remote, invoked>>

(* ----------------------------- upload_dir ------------------------------ *)

\* key = dirpath when key is None
dir_key(f) == IF f.key = None THEN f.path ELSE f.key

\* dirpath = os.path.join(os.getcwd(), dirpath) unless dirpath[0] == "/"
abs_dirpath(dirpath) == IF dirpath[1] # "/" THEN join(S_cwd, dirpath) ELSE dirpath

\* file_key = path.replace(dirpath, key, 1)
file_key(path, dirpath, key) == replace(path, dirpath, key)

upload_dir_request(f) == s3_upload_file(f, Head(f.todo), file_key(Head(f.todo), f.dirpath, f.key))

\* the body of the loops from frame f on: upload the next file, or return True
upload_dir_loop(f) ==
    IF f.todo = <<>>
    THEN /\ ReturnFrom("True")
         /\ UNCHANGED inflight
    ELSE /\ Issue(f, upload_dir_request(f))
         /\ UNCHANGED <<returns, results>>

upload_dir ==
    /\ Running("upload_dir", "start")
    /\ NewClient(Top.region)
    /\ upload_dir_loop([Top EXCEPT !.key = dir_key(Top),
                           !.dirpath = abs_dirpath(Top.path),
                           !.todo = walk_top(fs, abs_dirpath(Top.path))])
    /\ UNCHANGED <<fs, pc, calls, log, remote, invoked>>

upload_dir_next ==
    /\ Running("upload_dir", "resume")
    /\ upload_dir_loop([Top EXCEPT !.todo = Tail(Top.todo)])
    /\ UNCHANGED <<fs, pc, calls, clients, log, remote, invoked>>

upload_dir_except == Except("upload_dir")

(* ------------------------ set_bucket_web_config ------------------------ *)

put_bucket_cors(f) == Call("put_bucket_cors", f.region, f.bucket)

put_bucket_policy(f) ==
    [Call("put_bucket_policy", f.region, f.bucket) EXCEPT
        !.policy = S_arn \o f.bucket \o S_slash_star]

put_bucket_website(f) ==
    [Call("put_bucket_website", f.region, f.bucket) EXCEPT
        !.index = IF f.index_doc = None THEN S_index_html ELSE f.index_doc,
        !.error = IF f.error_doc = None THEN S_error_html ELSE f.error_doc]

\* a public part that does not test public
public_part_always(f) ==
    /\ Issue(f, put_bucket_policy(f))
    /\ UNCHANGED <<returns, results>>

\* if public: ... from frame f on
public_part(f) ==
    IF f.public
    THEN /\ Issue(f, put_bucket_policy(f))
         /\ UNCHANGED <<returns, results>>
    ELSE /\ ReturnFrom("True")
         /\ UNCHANGED inflight

set_bucket_web_config ==
    /\ Running("set_bucket_web_config", "start")
    /\ NewClient(Top.region)
    /\ IF Top.cors
       THEN /\ Issue(Top, put_bucket_cors(Top))
            /\ UNCHANGED <<returns, results>>
       ELSE public_part(Top)
    /\ UNCHANGED <<fs, pc, calls, log, remote, invoked>>

set_bucket_web_config_after_cors ==
    /\ Running("set_bucket_web_config", "resume")
    /\ Top.at = "put_bucket_cors"
    /\ public_part(Top)
    /\ UNCHANGED <<fs, pc, calls, clients, log, remote, invoked>>

set_bucket_web_config_after_policy ==
    /\ Running("set_bucket_web_config", "resume")
    /\ Top.at = "put_bucket_policy"
    /\ Issue(Top, put_bucket_website(Top))
    /\ UNCHANGED <<fs, pc, calls, clients, log, remote, invoked, returns, results>>

set_bucket_web_config_return ==
    /\ Running("set_bucket_web_config", "resume")
    /\ Top.at = "put_bucket_website"
    /\ ReturnFrom("True")
    /\ UNCHANGED <<fs, pc, inflight, calls, clients, log, remote, invoked>>

set_bucket_web_config_except == Except("set_bucket_web_config")

(* ------------------------------ callers -------------------------------- *)

\* a call from the top level
Enter(f, next) ==
    /\ stack = <<>>
    /\ stack' = <<f>>
    /\ invoked' = Append(invoked, f)
    /\ pc' = next
    /\ UNCHANGED <<fs, inflight, calls, clients, log, remote, returns, results>>

\* some caller calls one of the five functions
CallCreateBucket ==
    /\ pc = "idle"
    /\ \E b \in Buckets, r \in Regions :
          Enter(Frame("create_bucket", b, None, r, None, None, None, FALSE, FALSE), "call")

CallUpload ==
    /\ pc = "idle"
    /\ \E b \in Buckets, p \in Paths, r \in Regions, k \in Keys :
          Enter(Frame("upload", b, p, r, k, None, None, FALSE, FALSE), "call")

CallUploadFile ==
    /\ pc = "idle"
    /\ \E b \in Buckets, p \in Paths, r \in Regions, k \in Keys :
          /\ isfile(fs, p)
          /\ Enter(Frame("upload_file", b, p, r, k, None, None, FALSE, FALSE), "call")

CallUploadDir ==
    /\ pc = "idle"
    /\ \E b \in Buckets, p \in Paths, r \in Regions, k \in Keys :
          Enter(Frame("upload_dir", b, p, r, k, None, None, FALSE, FALSE), "call")

CallWebConfig ==
    /\ pc = "idle"
    /\ \E b \in Buckets, r \in Regions, i \in Docs, e \in Docs, c \in BOOLEAN, p \in BOOLEAN :
          Enter(Frame("set_bucket_web_config", b, None, r, None, i, e, c, p), "call")

\* the statements of the module, lines 198-202
ScriptCreateBucket ==
    /\ pc = "idle"
    /\ Enter(Frame("create_bucket", bucket_name, None, None, None, None, None, FALSE, FALSE),
             "s1")

ScriptUpload ==
    /\ pc = "s1"
    /\ Len(results) = 1
    /\ Enter(Frame("upload", bucket_name, script_path, None, script_key, None, None,
                   FALSE, FALSE), "s2")

ScriptWebConfig ==
    /\ pc = "s2"
    /\ Len(results) = 2
    /\ Enter(Frame("set_bucket_web_config", bucket_name, None, None, None,
                   script_index_doc, None, TRUE, TRUE), "s3")

Next ==
    \/ CallCreateBucket
    \/ CallUpload
    \/ CallUploadFile
    \/ CallUploadDir
    \/ CallWebConfig
    \/ ScriptCreateBucket
    \/ ScriptUpload
    \/ ScriptWebConfig
    \/ create_bucket
    \/ create_bucket_except
    \/ create_bucket_return
    \/ upload
    \/ upload_return
    \/ upload_file
    \/ upload_file_except
    \/ upload_file_return
    \/ upload_dir
    \/ upload_dir_next
    \/ upload_dir_except
    \/ set_bucket_web_config
    \/ set_bucket_web_config_after_cors
    \/ set_bucket_web_config_after_policy
    \/ set_bucket_web_config_return
    \/ set_bucket_web_config_except
    \/ \E o \in Outcomes : Respond(o)
    \/ Propagate

Spec == Init /\ [][Next]_vars

(* ------------------------- what was observed --------------------------- *)

\* the remote calls issued so far, answered or not
Issued == IF inflight = {} THEN calls ELSE Append(calls, CHOOSE c \in inflight : TRUE)

OfApi(cs, api) == SelectSeq(cs, LAMBDA c : c.api = api)

Uploads == OfApi(Issued, "upload_file")

Range(s) == {s[i] : i \in 1..Len(s)}

EndsWith(s, t) == Len(t) <= Len(s) /\ SubSeq(s, Len(s) - Len(t) + 1, Len(s)) = t

IsPrefix(t, s) == Len(t) <= Len(s) /\ SubSeq(s, 1, Len(t)) = t

\* the script is what runs (its bucket is not one of Buckets)
IsScript == invoked # <<>> /\ invoked[1].bucket = bucket_name

\* the caller's call f is over: it returned or raised
Over == invoked # <<>> /\ stack = <<>>

\* the entries below a directory, as lists of names from the directory down
RECURSIVE RelLeaves(_, _)
RelLeaves(node, kinds) ==
    LET es == Range(node.entries) IN
    {<<e.name>> : e \in {x \in es : x.kind \in kinds}}
    \cup UNION {{<<d.name>> \o r : r \in RelLeaves(d, kinds)} : d \in {x \in es : x.kind = "dir"}}

RECURSIVE FlatPath(_)
FlatPath(names) ==
    IF Len(names) = 1 THEN names[1] ELSE names[1] \o <<"/">> \o FlatPath(Tail(names))

\* the absolute path of the directory p names, and the paths of the entries below it
AbsRoot(p) == IF p[1] = "/" THEN p ELSE S_cwd \o <<"/">> \o p

Slashed(s) == IF s[Len(s)] = "/" THEN s ELSE s \o <<"/">>

PathsBelow(p, kinds) ==
    {Slashed(AbsRoot(p)) \o FlatPath(r) : r \in RelLeaves(Resolve(fs, p), kinds)}

EffectiveKey(f) == IF f.key = None THEN f.path ELSE f.key

DirReturned(v) == \E j \in 1..Len(returns) : returns[j].fn = "upload_dir" /\ returns[j].value = v

DirRuns == {f \in Range(invoked) : f.fn \in {"upload", "upload_dir"} /\ isdir(fs, f.path)}

(* ------------------------------- C1 ------------------------------------ *)

C1_Scenario ==
    /\ fs = MkFs(2)
    /\ invoked = <<Frame("upload", S_b, S_dot_site, None, <<>>, None, None, FALSE, FALSE)>>

\* C1: upload("b", "./site", key="") on a directory holding exactly index.html
\* and css/style.css issues exactly two uploads, whose keys are "index.html"
\* and "css/style.css".
C1_Claim ==
    (C1_Scenario /\ results = <<"True">>) =>
        /\ Len(Uploads) = 2
        /\ {Uploads[i].key : i \in 1..Len(Uploads)} = {S_key_index, S_key_style}

(* ------------------------------- C2 ------------------------------------ *)

\* C2: whatever remote call fails inside an operation, the operation logs the
\* error and returns False; no exception leaves the function.
C2_Claim ==
    /\ "raised" \notin Range(results)
    /\ \A i \in 1..Len(calls) :
          (calls[i].outcome # "ok" /\ Over /\ ~IsScript) =>
              /\ results = <<"False">>
              /\ log # <<>>

(* ------------------------------- C3 ------------------------------------ *)

\* what C3 says of a directory upload f that returned True, for the entries
\* of the given kinds
C3_Walk(f, kinds) ==
    LET want == PathsBelow(f.path, kinds) IN
    /\ Len(Uploads) = Cardinality(want)
    /\ {Uploads[i].src : i \in 1..Len(Uploads)} = want
    /\ \A i \in 1..Len(Uploads) :
          /\ Uploads[i].bucket = f.bucket
          /\ IsPrefix(AbsRoot(f.path), Uploads[i].src)
          /\ Uploads[i].key = EffectiveKey(f)
                \o SubSeq(Uploads[i].src, Len(AbsRoot(f.path)) + 1, Len(Uploads[i].src))

C3_Returns ==
    \A j \in 1..Len(returns) :
        (returns[j].fn = "upload_dir" /\ \A i \in 1..Len(calls) : calls[i].outcome = "ok")
            => returns[j].value = "True"

C4_Claim ==
    \A i \in 1..Len(calls) :
        (/\ invoked # <<>>
         /\ invoked[1].fn = "upload_dir"
         /\ calls[i].outcome # "ok"
         /\ Over) =>
            /\ results = <<"False">>
            /\ i = Len(calls)
            /\ \A j \in 1..(i - 1) :
                  [bucket |-> calls[j].bucket, key |-> calls[j].key, ctype |-> calls[j].ctype]
                      \in remote.objects

(* ------------------------------- C5 ------------------------------------ *)

C5_Callee(f) == IF isfile(fs, f.path) THEN "upload_file" ELSE "upload_dir"

\* C5: upload on a path that is neither a file nor a directory returns False
\* with no client and no remote call; a file goes to upload_file, a directory
\* to upload_dir, with the same bucket, region and key, and upload returns
\* what the callee returned.
C5_Dispatch ==
    \A k \in 1..Len(invoked) :
        LET f == invoked[k] IN
        (f.fn = "upload" /\ ~IsScript) =>
            IF ~isfile(fs, f.path) /\ ~isdir(fs, f.path)
            THEN /\ clients = <<>>
                 /\ Issued = <<>>
                 /\ Len(stack) <= 1
                 /\ Over => results = <<"False">>
            ELSE /\ (stack # <<>> /\ stack[1].pos # "start") =>
                        (Len(stack) = 2 \/ stack[1].pos = "returned")
                 /\ Len(stack) = 2 =>
                        /\ Top.fn = C5_Callee(f)
                        /\ Top.bucket = f.bucket
                        /\ Top.region = f.region
                        /\ Top.path = f.path
                        /\ Top.pos = "start" => Top.key = f.key
                 /\ \A j \in 1..Len(returns) :
                        returns[j].fn = "upload" =>
                            /\ j = 2
                            /\ returns[1].fn = C5_Callee(f)
                            /\ returns[1].value = returns[2].value
                            /\ results = <<returns[1].value>>

C5_Witness ==
    /\ ~IsScript
    /\ Len(returns) = 2
    /\ returns[2].fn = "upload"
    /\ returns[1].fn = "upload_dir"
    /\ returns[1].value = "False"
    /\ invoked[1].key = S_k

(* ------------------------------- C6 ------------------------------------ *)

\* C6: a bucket-creation request carries no location constraint when region
\* is unset, and never one that names the default region.
C6_Claim ==
    \A i \in 1..Len(Issued) :
        Issued[i].api = "create_bucket" =>
            /\ Issued[i].loc # DefaultRegion
            /\ invoked[1].region = None => Issued[i].loc = None

(* ------------------------------- C7 ------------------------------------ *)

\* C7: set_bucket_web_config with cors=False and public=False issues no call
\* of the service and returns True.
C7_NoCalls ==
    (/\ invoked # <<>>
     /\ invoked[1].fn = "set_bucket_web_config"
     /\ ~invoked[1].cors
     /\ ~invoked[1].public) =>
        /\ Issued = <<>>
        /\ remote = [buckets |-> {}, objects |-> {}, cors |-> {}, policy |-> {}, website |-> {}]
        /\ log = <<>>
        /\ Over => results = <<"True">>

C7_Witness ==
    /\ Over
    /\ invoked[1].fn = "set_bucket_web_config"
    /\ ~invoked[1].cors
    /\ ~invoked[1].public
    /\ invoked[1].index_doc = S_chat_html
    /\ invoked[1].region = S_us_west_2
    /\ results = <<"True">>

(* ------------------------------- C8 ------------------------------------ *)

\* C8: the script runs create_bucket, upload and set_bucket_web_config in this
\* order, each exactly once, whatever the earlier steps returned.
C8_Claim ==
    (IsScript /\ Over /\ pc \in {"s3", "crashed"}) =>
        /\ [k \in 1..Len(invoked) |-> invoked[k].fn]
              = <<"create_bucket", "upload", "set_bucket_web_config">>
        /\ Len(results) = 3

(* ------------------------------- C9 ------------------------------------ *)

C10_Expected(f) ==
    (IF f.cors THEN <<"put_bucket_cors">> ELSE <<>>)
    \o (IF f.public THEN <<"put_bucket_policy", "put_bucket_website">> ELSE <<>>)

\* C10: set_bucket_web_config issues CORS (if cors), then policy and website
\* (if public), index_doc and error_doc defaulting to index.html and
\* error.html; the first call that fails makes it return False, with no later
\* call and with the earlier calls left applied.
C10_Claim ==
    (invoked # <<>> /\ invoked[1].fn = "set_bucket_web_config" /\ ~IsScript) =>
        LET f == invoked[1]
            apis == [i \in 1..Len(Issued) |-> Issued[i].api]
        IN
        /\ IsPrefix(apis, C10_Expected(f))
        /\ \A i \in 1..Len(Issued) :
              Issued[i].api = "put_bucket_website" =>
                  /\ Issued[i].index = (IF f.index_doc = None THEN S_index_html ELSE f.index_doc)
                  /\ Issued[i].error = (IF f.error_doc = None THEN S_error_html ELSE f.error_doc)
                  /\ f.bucket \in {p.bucket : p \in remote.policy}
        /\ \A i \in 1..Len(calls) :
              calls[i].outcome # "ok" =>
                  /\ i = Len(Issued)
                  /\ Over => results = <<"False">>
                  /\ (i > 1 /\ calls[1].api = "put_bucket_cors") => f.bucket \in remote.cors
        /\ (Over /\ \A i \in 1..Len(calls) : calls[i].outcome = "ok") =>
              /\ apis = C10_Expected(f)
              /\ results = <<"True">>
====
